---------------------------- MODULE Spec2Model ----------------------------
(***************************************************************************)
(* Opening book of playtak-tei (src/src/book.rs): Book::load reads a text  *)
(* file of PTN move lines into a Book, Book::get_move proposes a           *)
(* continuation of a move history that is inside the board, chosen at      *)
(* random, and Book::is_valid is the board-bounds test.                    *)
(*                                                                         *)
(* A text line is a sequence of one-character strings, a token a sequence  *)
(* of characters without white space, a move a record.  Three              *)
(* specifications share the variables: Spec (a book file of stored lines   *)
(* is loaded and queried), SpecLoad (every small file content is loaded)   *)
(* and SpecValid (is_valid applied to every small move and size).          *)
(***************************************************************************)
EXTENDS Integers, Sequences, FiniteSets, TLC

VARIABLES
    file,       \* the file at the path given to load: does it open, and what reading each line gives
    book,       \* what load returned: not called yet, an I/O error, or the Book
    history,    \* argument of the last get_move call
    size,       \* argument of the last get_move (or is_valid) call
    matching,   \* the local matching_next_moves of the last get_move call
    slot,       \* the index choose drew in matching (0: nothing drawn)
    ret,        \* what the last get_move call returned
    ncalls,     \* get_move calls made on the Book so far
    probe,      \* argument of the is_valid call of SpecValid
    valid       \* what that is_valid call returned

vars == <<file, book, history, size, matching, slot, ret, ncalls, probe, valid>>

-----------------------------------------------------------------------------
(* Bounds of the model.                                                    *)

MaxLines == 2        \* text lines of a file of SpecLoad
MaxTokens == 2       \* tokens of a text line of SpecLoad
MaxBookLines == 2    \* text lines of a book file of Spec
MaxHistory == 2      \* moves of a history
MaxSize == 6         \* board sizes 0..MaxSize
MaxCalls == 2        \* get_move calls on one Book
MaxCoord == 4        \* coordinates 0..MaxCoord of an is_valid probe
MaxDrops == 3        \* drops of a Spread probe

Sizes == 0..MaxSize

-----------------------------------------------------------------------------
(* crate::game: GameMove, Direction and GameMove::from_ptn.                *)

Place(x, y, piece) == [kind |-> "Place", x |-> x, y |-> y, piece |-> piece]

Spread(x, y, direction, drops) ==
    [kind |-> "Spread", x |-> x, y |-> y, direction |-> direction, drops |-> drops]

ParseError == [kind |-> "Err"]

FileChars == <<"a", "b", "c", "d", "e", "f", "g", "h">>

DigitChars == <<"1", "2", "3", "4", "5", "6", "7", "8">>

IsIn(chars, c) == \E i \in 1..Len(chars) : chars[i] = c

IndexIn(chars, c) == CHOOSE i \in 1..Len(chars) : chars[i] = c

PieceOf(c) == CASE c = "S" -> "wall" [] c = "C" -> "cap" [] OTHER -> "flat"

DirectionOf(c) ==
    CASE c = "+" -> "North" [] c = "-" -> "South" [] c = ">" -> "East" [] OTHER -> "West"

\* PTN: [F|S|C] square for a placement, [count] square direction [drops] for
\* a spread; a square is a file letter (x) and a rank digit (y + 1).
from_ptn(tok) ==
    LET hasPiece == tok # <<>> /\ tok[1] \in {"F", "S", "C"}
        hasCount == tok # <<>> /\ IsIn(DigitChars, tok[1])
        body == IF hasPiece \/ hasCount THEN Tail(tok) ELSE tok
    IN  IF Len(body) < 2 \/ ~IsIn(FileChars, body[1]) \/ ~IsIn(DigitChars, body[2])
        THEN ParseError
        ELSE LET x == IndexIn(FileChars, body[1]) - 1
                 y == IndexIn(DigitChars, body[2]) - 1
                 rest == SubSeq(body, 3, Len(body))
             IN  IF rest = <<>>
                 THEN IF hasCount THEN ParseError
                      ELSE Place(x, y, IF hasPiece THEN PieceOf(tok[1]) ELSE "flat")
                 ELSE IF hasPiece \/ rest[1] \notin {"+", "-", ">", "<"}
                      \/ \E i \in 2..Len(rest) : ~IsIn(DigitChars, rest[i])
                 THEN ParseError
                 ELSE LET count == IF hasCount THEN IndexIn(DigitChars, tok[1]) ELSE 1
                          drops == IF Len(rest) = 1 THEN <<count>>
                                   ELSE [i \in 1..(Len(rest) - 1) |->
                                            IndexIn(DigitChars, rest[i + 1])]
                      IN  Spread(x, y, DirectionOf(rest[1]), drops)

-----------------------------------------------------------------------------
(* Book::load.                                                             *)

WhiteSpace == {" ", "\t"}

\* line.trim().is_empty()
trim_is_empty(line) == \A i \in 1..Len(line) : line[i] \in WhiteSpace

\* line.split_ascii_whitespace(): the maximal runs of non-white-space
\* characters, in order.  cur is the run being read, acc the runs read.
RECURSIVE split_from(_, _, _, _)
split_from(line, i, cur, acc) ==
    IF i > Len(line)
    THEN IF cur = <<>> THEN acc ELSE Append(acc, cur)
    ELSE IF line[i] \in WhiteSpace
    THEN split_from(line, i + 1, <<>>, IF cur = <<>> THEN acc ELSE Append(acc, cur))
    ELSE split_from(line, i + 1, Append(cur, line[i]), acc)

split_ascii_whitespace(line) == split_from(line, 1, <<>>, <<>>)

\* Mutant of parse_moves: a token that fails to parse is skipped and the
\* parsing resumes after it (continue for break).
RECURSIVE parse_moves_resume(_)
parse_moves_resume(toks) ==
    IF toks = <<>> THEN <<>>
    ELSE LET m == from_ptn(Head(toks))
         IN  IF m # ParseError THEN <<m>> \o parse_moves_resume(Tail(toks))
             ELSE parse_moves_resume(Tail(toks))

\* Mutant of parse_moves: a move outside a 5 x 5 board is not kept.
RECURSIVE parse_moves_on_board(_)
parse_moves_on_board(toks) ==
    IF toks = <<>> THEN <<>>
    ELSE LET m == from_ptn(Head(toks))
         IN  IF m = ParseError THEN <<>>
             ELSE IF m.x < 5 /\ m.y < 5 THEN <<m>> \o parse_moves_on_board(Tail(toks))
             ELSE parse_moves_on_board(Tail(toks))

\* The loop over the tokens of one line: push while from_ptn succeeds,
\* break at the first token it rejects.
RECURSIVE parse_moves(_)
parse_moves(toks) ==
    IF toks = <<>> THEN <<>>
    ELSE LET m == from_ptn(Head(toks))
         IN  IF m # ParseError THEN <<m>> \o parse_moves(Tail(toks)) ELSE <<>>

IoError == [tag |-> "Err"]

OkBook(lines) == [tag |-> "Ok", lines |-> lines]

NotLoaded == [tag |-> "NotLoaded"]

\* Mutant of read_lines: the moves of a line are pushed even when empty.
RECURSIVE read_lines_keep_empty(_, _)
read_lines_keep_empty(reads, lines) ==
    IF reads = <<>> THEN OkBook(lines)
    ELSE LET r == Head(reads)
         IN  IF ~r.ok THEN IoError
             ELSE IF trim_is_empty(r.text) THEN read_lines_keep_empty(Tail(reads), lines)
             ELSE read_lines_keep_empty(Tail(reads),
                     Append(lines, parse_moves(split_ascii_whitespace(r.text))))

\* Mutant of read_lines: a line's moves are inserted at the front.
RECURSIVE read_lines_prepend(_, _)
read_lines_prepend(reads, lines) ==
    IF reads = <<>> THEN OkBook(lines)
    ELSE LET r == Head(reads)
         IN  IF ~r.ok THEN IoError
             ELSE IF trim_is_empty(r.text) THEN read_lines_prepend(Tail(reads), lines)
             ELSE LET moves == parse_moves(split_ascii_whitespace(r.text))
                  IN  read_lines_prepend(Tail(reads),
                         IF moves # <<>> THEN <<moves>> \o lines ELSE lines)

\* Mutant of read_lines: the loop ends at a line that cannot be read and
\* the lines read so far are returned (map_while(Result::ok) for ?).
RECURSIVE read_lines_until_error(_, _)
read_lines_until_error(reads, lines) ==
    IF reads = <<>> THEN OkBook(lines)
    ELSE LET r == Head(reads)
         IN  IF ~r.ok THEN OkBook(lines)
             ELSE IF trim_is_empty(r.text) THEN read_lines_until_error(Tail(reads), lines)
             ELSE LET moves == parse_moves(split_ascii_whitespace(r.text))
                  IN  read_lines_until_error(Tail(reads),
                         IF moves # <<>> THEN Append(lines, moves) ELSE lines)

\* The loop over reader.lines(): reads is what reading each line gives
\* (the text, or an error), lines the Vec built so far.
RECURSIVE read_lines(_, _)
read_lines(reads, lines) ==
    IF reads = <<>> THEN OkBook(lines)
    ELSE LET r == Head(reads)
         IN  IF ~r.ok THEN IoError
             ELSE IF trim_is_empty(r.text) THEN read_lines(Tail(reads), lines)
             ELSE LET moves == parse_moves(split_ascii_whitespace(r.text))
                  IN  read_lines(Tail(reads),
                                 IF moves # <<>> THEN Append(lines, moves) ELSE lines)

load(f) == IF ~f.exists THEN IoError ELSE read_lines(f.reads, <<>>)

-----------------------------------------------------------------------------
(* Book::is_valid and Book::get_move.                                      *)

\* Mutant of is_valid: only the origin of a Spread is tested.
is_valid_origin_only(m, sz) == m.x < sz /\ m.y < sz

\* Mutant of is_valid: <= for < on the origin.
is_valid_origin_inclusive(m, sz) ==
    IF m.kind = "Place" THEN m.x <= sz /\ m.y <= sz
    ELSE IF m.x > sz \/ m.y > sz THEN FALSE
    ELSE LET distance == Len(m.drops)
         IN  CASE m.direction = "North" -> m.y + distance < sz
               [] m.direction = "South" -> m.y >= distance
               [] m.direction = "East" -> m.x + distance < sz
               [] m.direction = "West" -> m.x >= distance

\* Mutant of is_valid: > for >= to the South and to the West.
is_valid_strict(m, sz) ==
    IF m.kind = "Place" THEN m.x < sz /\ m.y < sz
    ELSE IF m.x >= sz \/ m.y >= sz THEN FALSE
    ELSE LET distance == Len(m.drops)
         IN  CASE m.direction = "North" -> m.y + distance < sz
               [] m.direction = "South" -> m.y > distance
               [] m.direction = "East" -> m.x + distance < sz
               [] m.direction = "West" -> m.x > distance

\* x, y, size and distance are u32; every sum taken here is far below 2^32,
\* where u32 addition is integer addition.
is_valid(m, sz) ==
    IF m.kind = "Place" THEN m.x < sz /\ m.y < sz
    ELSE IF m.x >= sz \/ m.y >= sz THEN FALSE
    ELSE LET distance == Len(m.drops)
         IN  CASE m.direction = "North" -> m.y + distance < sz
               [] m.direction = "South" -> m.y >= distance
               [] m.direction = "East" -> m.x + distance < sz
               [] m.direction = "West" -> m.x >= distance

\* slice::starts_with
starts_with(line, h) ==
    /\ Len(h) <= Len(line)
    /\ \A i \in 1..Len(h) : line[i] = h[i]

\* Mutant of matching_next_moves: a move already collected is not
\* collected again.
RECURSIVE matching_next_moves_dedup(_, _, _)
matching_next_moves_dedup(lines, h, sz) ==
    IF lines = <<>> THEN <<>>
    ELSE LET line == Head(lines)
             rest == matching_next_moves_dedup(Tail(lines), h, sz)
         IN  IF Len(line) > Len(h) /\ starts_with(line, h)
             THEN LET next_move == line[Len(h) + 1]
                  IN  IF is_valid(next_move, sz)
                         /\ \A j \in 1..Len(rest) : rest[j] # next_move
                      THEN <<next_move>> \o rest ELSE rest
             ELSE rest

\* self.lines.iter().filter_map(..).collect(): one entry per line that
\* passes, in line order.
RECURSIVE matching_next_moves(_, _, _)
matching_next_moves(lines, h, sz) ==
    IF lines = <<>> THEN <<>>
    ELSE LET line == Head(lines)
             rest == matching_next_moves(Tail(lines), h, sz)
         IN  IF Len(line) > Len(h) /\ starts_with(line, h)
             THEN LET next_move == line[Len(h) + 1]
                  IN  IF is_valid(next_move, sz) THEN <<next_move>> \o rest ELSE rest
             ELSE rest

\* Mutant of choose: the first element is always drawn.
choose_first(n) == IF n >= 1 THEN {1} ELSE {}

\* The indices choose can draw in a vector of n elements.
choose(n) == 1..n

None == [tag |-> "None"]

Some(m) == [tag |-> "Some", move |-> m]

NotCalled == [tag |-> "NotCalled"]

-----------------------------------------------------------------------------
(* Inputs.                                                                 *)

SeqsUpTo(S, n) == UNION {[1..k -> S] : k \in 0..n}

\* The tokens joined by single spaces.
RECURSIVE Unwords(_)
Unwords(toks) ==
    IF toks = <<>> THEN <<>>
    ELSE IF Len(toks) = 1 THEN Head(toks)
    ELSE Head(toks) \o <<" ">> \o Unwords(Tail(toks))

a1 == <<"a", "1">>

b1 == <<"b", "1">>

c1 == <<"c", "1">>

f6 == <<"f", "6">>

Readable(text) == [ok |-> TRUE, text |-> text]

Unreadable == [ok |-> FALSE, text |-> <<>>]

\* SpecLoad: every line of at most MaxTokens tokens among two that parse
\* and one that does not, a white-space-only line, a line with white space
\* around and between its tokens, a line with a token that parses after
\* one that does not, and a line that cannot be read.
LoadTokens == {a1, b1, <<"?">>}

LoadReads ==
    {Readable(Unwords(t)) : t \in SeqsUpTo(LoadTokens, MaxTokens)}
    \cup {Readable(<<" ", "\t">>),
          Readable(<<" ", "b", "1", " ", "\t", "a", "1", " ">>),
          Readable(Unwords(<<a1, <<"?">>, b1>>)),
          Unreadable}

NoFile == [exists |-> FALSE, reads |-> <<>>]

LoadFiles ==
    {NoFile} \cup {[exists |-> TRUE, reads |-> r] : r \in SeqsUpTo(LoadReads, MaxLines)}

\* Spec: book files of at most MaxBookLines lines among these.
BookTexts ==
    { Unwords(<<a1, b1>>),
      Unwords(<<a1, c1>>),
      Unwords(<<a1, f6>>),
      Unwords(<<a1, b1, c1>>),
      Unwords(<<a1, <<"2", "a", "2", "+", "1", "1">> >>) }

BookFiles ==
    {[exists |-> TRUE, reads |-> r] :
        r \in SeqsUpTo({Readable(t) : t \in BookTexts}, MaxBookLines)}

Histories == SeqsUpTo({from_ptn(a1), from_ptn(b1)}, MaxHistory)

Directions == {"North", "South", "East", "West"}

\* SpecValid: every placement and every spread of at most MaxDrops drops
\* from a cell with coordinates up to MaxCoord.
Probes ==
    {Place(x, y, "flat") : x \in 0..MaxCoord, y \in 0..MaxCoord}
    \cup {Spread(x, y, d, [i \in 1..n |-> 1]) :
            x \in 0..MaxCoord, y \in 0..MaxCoord, d \in Directions, n \in 0..MaxDrops}

NoProbe == [kind |-> "None"]

-----------------------------------------------------------------------------
(* The specifications.                                                     *)

InitRest ==
    /\ book = NotLoaded
    /\ history = <<>>
    /\ matching = <<>>
    /\ slot = 0
    /\ ret = NotCalled
    /\ ncalls = 0
    /\ valid = NotCalled

Init ==
    /\ file \in BookFiles
    /\ size = 0
    /\ probe = NoProbe
    /\ InitRest

InitLoad ==
    /\ file \in LoadFiles
    /\ size = 0
    /\ probe = NoProbe
    /\ InitRest

InitValid ==
    /\ file = NoFile
    /\ size \in Sizes
    /\ probe \in Probes
    /\ InitRest

\* Book::load(path)
Load ==
    /\ book = NotLoaded
    /\ probe = NoProbe
    /\ book' = load(file)
    /\ UNCHANGED <<file, history, size, matching, slot, ret, ncalls, probe, valid>>

\* book.get_move(h, sz)
get_move(h, sz) ==
    /\ book.tag = "Ok"
    /\ ncalls < MaxCalls
    /\ LET v == matching_next_moves(book.lines, h, sz)
       IN  /\ matching' = v
           /\ IF v = <<>>
              THEN slot' = 0 /\ ret' = None
              ELSE \E i \in choose(Len(v)) : slot' = i /\ ret' = Some(v[i])
    /\ history' = h
    /\ size' = sz
    /\ ncalls' = ncalls + 1
    /\ UNCHANGED <<file, book, probe, valid>>

GetMove == \E h \in Histories, sz \in Sizes : get_move(h, sz)

\* self.is_valid(&probe, size)
IsValid ==
    /\ probe # NoProbe
    /\ valid = NotCalled
    /\ valid' = [tag |-> "Bool", value |-> is_valid(probe, size)]
    /\ UNCHANGED <<file, book, history, size, matching, slot, ret, ncalls, probe>>

Next == Load \/ GetMove

NextLoad == Load

NextValid == IsValid

Spec == Init /\ [][Next]_vars

SpecLoad == InitLoad /\ [][NextLoad]_vars

SpecValid == InitValid /\ [][NextValid]_vars

-----------------------------------------------------------------------------
(* What the specification of the book says, stated on its own terms.       *)

\* A candidate: strictly longer than the history and equal to it on its
\* first Len(h) moves.
Candidate(line, h) == Len(line) > Len(h) /\ SubSeq(line, 1, Len(h)) = h

\* The rules of the bounds validator.
RuleValid(m, sz) ==
    /\ m.x < sz
    /\ m.y < sz
    /\ m.kind = "Spread" =>
          /\ m.direction = "North" => m.y + Len(m.drops) < sz
          /\ m.direction = "South" => m.y >= Len(m.drops)
          /\ m.direction = "East" => m.x + Len(m.drops) < sz
          /\ m.direction = "West" => m.x >= Len(m.drops)

\* The lines whose proposed continuation survives, and the continuations.
Survivors(lines, h, sz) ==
    {i \in 1..Len(lines) : Candidate(lines[i], h) /\ RuleValid(lines[i][Len(h) + 1], sz)}

Continuations(lines, h, sz) == {lines[i][Len(h) + 1] : i \in Survivors(lines, h, sz)}

\* What get_move(h, sz) may return on a Book of these lines.
Results(lines, h, sz) ==
    IF Survivors(lines, h, sz) = {} THEN {None}
    ELSE {Some(m) : m \in Continuations(lines, h, sz)}

\* The results the next get_move(h, sz) call can give in this state.
CanReturn(h, sz, r) == ENABLED (get_move(h, sz) /\ ret' = r)

Called == ncalls >= 1

FileOf(texts) == [exists |-> TRUE, reads |-> [i \in 1..Len(texts) |-> Readable(texts[i])]]

ScenarioA == FileOf(<<Unwords(<<a1, b1>>), Unwords(<<a1, c1>>)>>)

ScenarioB == FileOf(<<Unwords(<<a1, f6>>)>>)

\* C1: every move get_move returns is valid for the size of the call: a
\* Place has x < size and y < size, a Spread also obeys the rule of its
\* direction for its number of drops.
C1_ReturnedMoveValid ==
    (Called /\ ret.tag = "Some") => RuleValid(ret.move, size)

\* A Spread was returned, while another candidate's continuation was
\* filtered out.
C1_Witness ==
    /\ Called
    /\ ret.tag = "Some"
    /\ ret.move.kind = "Spread"
    /\ Len(matching) < Cardinality({i \in 1..Len(book.lines) : Candidate(book.lines[i], history)})

\* C2: get_move returns the absent value exactly when no line is a
\* candidate with a continuation valid for the size, and a present value
\* otherwise; in particular it is absent when no line is a candidate.
C2_AbsentIffNoSurvivor ==
    Called =>
        /\ ret.tag \in {"None", "Some"}
        /\ ret = None <=> Survivors(book.lines, history, size) = {}
        /\ (\A i \in 1..Len(book.lines) : ~Candidate(book.lines[i], history)) => ret = None

\* Absent although a line equals the history, and absent although a line
\* is a candidate (its continuation is outside the board).
C2_Witness ==
    /\ Called
    /\ ret = None
    /\ history # <<>>
    /\ \E i \in 1..Len(book.lines) : book.lines[i] = history
    /\ \E i \in 1..Len(book.lines) : Candidate(book.lines[i], history)

\* C3: the values get_move(history, size) can return are exactly the
\* continuations of the candidate lines that are valid for the size: what
\* a call returned is one of them, and each of them is a result the call
\* can give (right after load for every history and size, after a call
\* for the arguments of that call).  On the book "a1 b1 / a1 c1",
\* get_move([a1], 5) can return b1, can return c1 and can return nothing
\* else.
C3_ExactlyTheValidContinuations ==
    /\ Called => ret \in Results(book.lines, history, size)
    /\ (book.tag = "Ok" /\ ncalls = 0) =>
          \A h \in Histories, sz \in Sizes :
             \A m \in Continuations(book.lines, h, sz) : CanReturn(h, sz, Some(m))
    /\ (Called /\ ncalls < MaxCalls) =>
          \A m \in Continuations(book.lines, history, size) : CanReturn(history, size, Some(m))
    /\ (file = ScenarioA /\ book.tag = "Ok" /\ ncalls < MaxCalls) =>
          \A r \in {None} \cup {Some(from_ptn(t)) : t \in {a1, b1, c1, f6}} :
             CanReturn(<<from_ptn(a1)>>, 5, r) <=> r \in {Some(from_ptn(b1)), Some(from_ptn(c1))}

\* Scenario A: the second call of get_move([a1], 5) returned c1.
C3_Witness ==
    /\ file = ScenarioA
    /\ ncalls = 2
    /\ history = <<from_ptn(a1)>>
    /\ size = 5
    /\ ret = Some(from_ptn(c1))

\* C9: the collection get_move draws from holds one entry per candidate
\* line whose continuation is valid, duplicates kept: a move proposed by k
\* such lines fills k of its slots, and every slot can be drawn.
C9_OneSlotPerSurvivingLine ==
    Called =>
        /\ Len(matching) = Cardinality(Survivors(book.lines, history, size))
        /\ \A m \in Continuations(book.lines, history, size) :
              Cardinality({j \in 1..Len(matching) : matching[j] = m})
                 = Cardinality({i \in Survivors(book.lines, history, size) :
                                   book.lines[i][Len(history) + 1] = m})
        /\ matching # <<>> => slot \in 1..Len(matching) /\ ret = Some(matching[slot])
        /\ ncalls < MaxCalls =>
              \A j \in 1..Len(matching) : ENABLED (get_move(history, size) /\ slot' = j)

\* Two lines proposed the same move: it fills both slots, and the second
\* was drawn.
C9_Witness ==
    /\ Called
    /\ Len(matching) = 2
    /\ matching[1] = matching[2]
    /\ slot = 2

\* The moves of every token of every text line of the file, in order.
AllMoves(f) ==
    [i \in 1..Len(f.reads) |->
        LET toks == split_ascii_whitespace(f.reads[i].text)
        IN  [j \in 1..Len(toks) |-> from_ptn(toks[j])]]

\* C10: load filters nothing by board bounds and get_move never changes
\* the Book: in every state the Book holds the moves of all the tokens of
\* the file, what a call returned is a result the Book, the history and
\* the size allow, and after a call the same call can give again exactly
\* the results the file's moves allow.  The Book of "a1 f6" answers
\* get_move([a1], 5) with absent and get_move([a1], 6) with f6, whichever
\* call came before.
C10_BookUnchanged ==
    book.tag = "Ok" =>
        /\ book.lines = AllMoves(file)
        /\ Called => ret \in Results(AllMoves(file), history, size)
        /\ (Called /\ ncalls < MaxCalls) =>
              \A r \in {None} \cup {Some(from_ptn(t)) : t \in {a1, b1, c1, f6}} :
                 CanReturn(history, size, r)
                    <=> r \in Results(AllMoves(file), history, size)
        /\ (file = ScenarioB /\ ncalls < MaxCalls) =>
              /\ CanReturn(<<from_ptn(a1)>>, 5, None)
              /\ ~CanReturn(<<from_ptn(a1)>>, 5, Some(from_ptn(f6)))
              /\ CanReturn(<<from_ptn(a1)>>, 6, Some(from_ptn(f6)))
              /\ ~CanReturn(<<from_ptn(a1)>>, 6, None)
        /\ (file = ScenarioB /\ Called /\ history = <<from_ptn(a1)>>) =>
              /\ size = 5 => ret = None
              /\ size = 6 => ret = Some(from_ptn(f6))

\* Scenario B: get_move([a1], 6) returned f6 as the second call on the
\* Book.
C10_Witness ==
    /\ file = ScenarioB
    /\ ncalls = 2
    /\ history = <<from_ptn(a1)>>
    /\ size = 6
    /\ ret = Some(from_ptn(f6))

-----------------------------------------------------------------------------
(* Claims about load, under SpecLoad.                                      *)

Loaded == book.tag = "Ok"

Tokens(i) == split_ascii_whitespace(file.reads[i].text)

\* The index of the first token of text line i that does not parse, the
\* number of tokens plus one when all parse.
FirstFailure(i) ==
    LET toks == Tokens(i)
        bad == {j \in 1..Len(toks) : from_ptn(toks[j]) = ParseError}
    IN  IF bad = {} THEN Len(toks) + 1
        ELSE CHOOSE j \in bad : \A k \in bad : j <= k

\* The moves of the tokens of text line i before the first failure.
ParsedPrefix(i) == [j \in 1..(FirstFailure(i) - 1) |-> from_ptn(Tokens(i)[j])]

\* Text line i gives the Book a Line: it has a token, and its first parses.
Contributes(i) == Tokens(i) # <<>> /\ FirstFailure(i) > 1

\* The place in the Book of the Line of text line i, when it gives one:
\* the number of contributing text lines up to i.
Rank(i) == Cardinality({j \in 1..i : Contributes(j)})

\* The Line text line i gave the Book, empty when it gave none.
LineOf(i) ==
    IF Contributes(i) /\ Rank(i) <= Len(book.lines) THEN book.lines[Rank(i)] ELSE <<>>

\* C4: the first token of a text line that fails to parse ends the parsing
\* of the line: the Line is the moves of the tokens before it, in order,
\* and no later token contributes a move, even one that parses.
C4_TruncatedAtFirstFailure ==
    Loaded =>
        \A i \in 1..Len(file.reads) :
            FirstFailure(i) <= Len(Tokens(i)) =>
                /\ LineOf(i) = ParsedPrefix(i)
                /\ Len(LineOf(i)) = FirstFailure(i) - 1

\* The line "a1 ? b1" gave the Line [a1].
C4_Witness ==
    /\ Loaded
    /\ \E i \in 1..Len(file.reads) :
          /\ Tokens(i) = <<a1, <<"?">>, b1>>
          /\ LineOf(i) = <<from_ptn(a1)>>

\* C5: every Line of a loaded Book has at least one move: blank lines,
\* white-space-only lines and lines whose first token fails to parse give
\* the Book no Line, every other line gives it one.
C5_NoEmptyLine ==
    Loaded =>
        /\ \A k \in 1..Len(book.lines) : Len(book.lines[k]) >= 1
        /\ Len(book.lines) = Cardinality({i \in 1..Len(file.reads) : Contributes(i)})

\* A white-space-only line and a line whose first token fails (its second
\* parses) gave no Line.
C5_Witness ==
    /\ Loaded
    /\ Len(file.reads) = 2
    /\ file.reads[1].text = <<" ", "\t">>
    /\ Tokens(2) = <<<<"?">>, a1>>
    /\ book.lines = <<>>

\* C6: a text line with tokens that all parse gives the Book exactly one
\* Line, the moves of its tokens in order, as long as its token count; the
\* Lines stand in the order of the text lines that gave them.
C6_FullLineKept ==
    Loaded =>
        /\ Len(book.lines) = Rank(Len(file.reads))
        /\ \A i \in 1..Len(file.reads) :
              (Tokens(i) # <<>> /\ FirstFailure(i) = Len(Tokens(i)) + 1) =>
                  /\ Rank(i) \in 1..Len(book.lines)
                  /\ Rank(i) = (IF i = 1 THEN 0 ELSE Rank(i - 1)) + 1
                  /\ Len(book.lines[Rank(i)]) = Len(Tokens(i))
                  /\ \A j \in 1..Len(Tokens(i)) :
                        book.lines[Rank(i)][j] = from_ptn(Tokens(i)[j])

\* The file "a1 b1 / b1 a1" gave a Book of 2 Lines, in that order.
C6_Witness ==
    /\ Loaded
    /\ file = FileOf(<<Unwords(<<a1, b1>>), Unwords(<<b1, a1>>)>>)
    /\ book.lines = << <<from_ptn(a1), from_ptn(b1)>>, <<from_ptn(b1), from_ptn(a1)>> >>

\* C7: load returns an error exactly when the file cannot be opened or a
\* line cannot be read, and then no Book at all; for every file that can
\* be read, whatever its tokens, it returns a Book.
C7_ErrorOnlyOnIo ==
    book # NotLoaded =>
        /\ book.tag \in {"Ok", "Err"}
        /\ book.tag = "Err" <=>
              (~file.exists \/ \E i \in 1..Len(file.reads) : ~file.reads[i].ok)
        /\ book.tag = "Err" => DOMAIN book = {"tag"}

\* An error although the line read before the unreadable one parsed: no
\* partial Book.
C7_Witness ==
    /\ book = IoError
    /\ file.exists
    /\ Len(file.reads) = 2
    /\ file.reads[1] = Readable(Unwords(<<a1, b1>>))
    /\ file.reads[2] = Unreadable

-----------------------------------------------------------------------------
(* The claim about is_valid, under SpecValid.                              *)

StepX(d) == CASE d = "East" -> 1 [] d = "West" -> -1 [] OTHER -> 0

StepY(d) == CASE d = "North" -> 1 [] d = "South" -> -1 [] OTHER -> 0

\* The origin and every cell the stack visits are cells of the grid.
WithinGrid(m, sz) ==
    \A k \in 0..Len(m.drops) :
        /\ m.x + k * StepX(m.direction) \in 0..(sz - 1)
        /\ m.y + k * StepY(m.direction) \in 0..(sz - 1)

\* C8: is_valid accepts a Spread exactly when its origin and every cell
\* the stack visits, one step of the direction per drop, are inside the
\* size x size grid.
C8_SpreadStaysInGrid ==
    (valid.tag = "Bool" /\ probe.kind = "Spread") =>
        (valid.value <=> WithinGrid(probe, size))

\* A spread to the North that ends on the last row is accepted.
C8_Witness ==
    /\ valid.tag = "Bool"
    /\ valid.value
    /\ probe.kind = "Spread"
    /\ probe.direction = "North"
    /\ Len(probe.drops) >= 1
    /\ probe.y + Len(probe.drops) = size - 1

=============================================================================
